---- MODULE Spec2Model ----
(***************************************************************************)
(* Operational transformation over byte documents.                         *)
(*                                                                         *)
(* Three operation models are verified:                                    *)
(*   Tier A - single-unit Insert(index, c) / Delete(index) / Noop          *)
(*            (the module whose Insert has two fields; src/src/lib.rs),    *)
(*   Tier B - Tier A plus num_deletes carried on Insert                    *)
(*            (the module whose Insert has three fields;                   *)
(*             src/src/single_op.rs),                                      *)
(*   Tier C - chunked step sequences Skip / Insert / Delete                *)
(*            (src/src/composite_op.rs).                                   *)
(*                                                                         *)
(* A document is a sequence of bytes; Rust's 0-based index i is the        *)
(* element i + 1 of the TLA+ sequence.  A panic of the Rust code is the    *)
(* flag ok = FALSE of a call's result; the document of such a result is    *)
(* the buffer as the panic left it.                                        *)
(***************************************************************************)
EXTENDS Integers, Sequences, FiniteSets, TLC

VARIABLES
    doc,                      \* the base document of a scenario
    doc1, doc2,               \* the two replicas' documents
    op1, op2, op3,            \* the operations of the scenario
    side,                     \* the Side handed to transform
    transformed_op1,          \* test local: transform(op1, op2, Left)
    transformed_op2,          \* test local: transform(op2, op1, Right)
    op3_transformed_by_1_2,   \* test local of transform_property_2
    op3_transformed_by_2_1,   \* test local of transform_property_2
    res,                      \* the result of a single transform call
    applied,                  \* the operations applied to doc1, in order
    failed,                   \* TRUE once a call has panicked
    pc                        \* which scenario has run

vars == <<doc, doc1, doc2, op1, op2, op3, side, transformed_op1,
          transformed_op2, op3_transformed_by_1_2, op3_transformed_by_2_1,
          res, applied, failed, pc>>

----------------------------------------------------------------------------
(* Bounds *)

MaxLen == 2        \* longest base document
MaxByte == 1       \* bytes are 0..MaxByte
MaxCount == 1      \* num_deletes of a generated Insert is 0..MaxCount
MaxChunk == 2      \* longest chunk of an Insert step
MaxSteps == 3      \* longest chunked operation
MaxPairSteps == 2  \* longest chunked operation of a two-replica scenario

Byte == 0..MaxByte
Index == 0..(MaxLen + 1)   \* one past the last valid insert position
Count == 0..MaxCount

RECURSIVE SeqsUpTo(_, _)
SeqsUpTo(S, n) ==
    IF n = 0 THEN {<<>>}
    ELSE LET shorter == SeqsUpTo(S, n - 1)
         IN  shorter \cup {Append(s, x) : s \in {t \in shorter : Len(t) = n - 1}, x \in S}

Doc == SeqsUpTo(Byte, MaxLen)

Left == "Left"
Right == "Right"
Side == {Left, Right}

----------------------------------------------------------------------------
(* Vec<u8> primitives, as the standard library defines them *)

\* Mutation: the byte is pushed at the end.
VecInsert_Push(d, index, c) == Append(d, c)

\* Vec::insert(index, c): every element at or after index moves right by one.
VecInsert(d, index, c) ==
    [i \in 1..(Len(d) + 1) |->
        IF i <= index THEN d[i]
        ELSE IF i = index + 1 THEN c
        ELSE d[i - 1]]

\* Mutation: the last element is removed.
VecRemove_Pop(d, index) == [i \in 1..(Len(d) - 1) |-> d[i]]

\* Vec::remove(index): every element after index moves left by one.
VecRemove(d, index) ==
    [i \in 1..(Len(d) - 1) |-> IF i <= index THEN d[i] ELSE d[i + 1]]

Ok(d) == [doc |-> d, ok |-> TRUE]
Panic(d) == [doc |-> d, ok |-> FALSE]

----------------------------------------------------------------------------
(* Tier A: Insert(usize, u8) | Delete(usize) | Noop *)

InsertA(index, c) == <<"Insert", index, c>>
DeleteA(index) == <<"Delete", index>>
NoopA == <<"Noop">>

OpA == {InsertA(i, c) : i \in Index, c \in Byte}
         \cup {DeleteA(i) : i \in Index} \cup {NoopA}

\* Mutation: an Insert past the end is clamped to the end instead of failing.
applyA_Clamp(d, op) ==
    CASE op[1] = "Insert" ->
            IF op[2] <= Len(d) THEN Ok(VecInsert(d, op[2], op[3]))
            ELSE Ok(Append(d, op[3]))
      [] op[1] = "Delete" ->
            IF op[2] < Len(d) THEN Ok(VecRemove(d, op[2])) ELSE Panic(d)
      [] op[1] = "Noop" -> Ok(d)

\* apply: Vec::insert panics when index > len, Vec::remove when index >= len,
\* both before the buffer is touched.
applyA(d, op) ==
    CASE op[1] = "Insert" ->
            IF op[2] <= Len(d) THEN Ok(VecInsert(d, op[2], op[3])) ELSE Panic(d)
      [] op[1] = "Delete" ->
            IF op[2] < Len(d) THEN Ok(VecRemove(d, op[2])) ELSE Panic(d)
      [] op[1] = "Noop" -> Ok(d)

\* Mutation: a tie of two Inserts is resolved without looking at the side.
insert_insertA_IgnoreSide(index, index2, s) ==
    IF index2 < index THEN index + 1 ELSE index

\* Mutation: the side also decides when the other Insert is strictly before.
insert_insertA_SideAlways(index, index2, s) ==
    IF index2 <= index THEN (IF s = Left THEN index ELSE index + 1) ELSE index

\* Mutation: the two sides of a tie are swapped.
insert_insertA_Swapped(index, index2, s) ==
    IF index2 < index THEN index + 1
    ELSE IF index2 = index THEN (IF s = Left THEN index + 1 ELSE index)
    ELSE index

\* transform, op1 = Insert(index, _), op2 = Insert(index2, _): the new index.
insert_insertA(index, index2, s) ==
    IF index2 < index THEN index + 1
    ELSE IF index2 = index THEN (IF s = Left THEN index ELSE index + 1)
    ELSE index

\* Mutation: a Delete at the Insert's own position shifts it down too.
insert_deleteA_OrEqual(index, index2) ==
    IF index2 <= index THEN index - 1 ELSE index

\* transform, op1 = Insert(index, _), op2 = Delete(index2): the new index.
insert_deleteA(index, index2) ==
    IF index2 < index THEN index - 1 ELSE index

\* Mutation: an Insert at the Delete's own position does not shift it.
delete_insertA_Strict(index, index2) ==
    IF index2 < index THEN index + 1 ELSE index

\* transform, op1 = Delete(index), op2 = Insert(index2, _): the new index.
delete_insertA(index, index2) ==
    IF index2 <= index THEN index + 1 ELSE index

\* Mutation: two Deletes of the same position do not collapse.
delete_deleteA_NoCollapse(index, index2) ==
    IF index2 < index THEN DeleteA(index - 1) ELSE DeleteA(index)

\* transform, op1 = Delete(index), op2 = Delete(index2): the returned operation.
delete_deleteA(index, index2) ==
    IF index2 < index THEN DeleteA(index - 1)
    ELSE IF index2 = index THEN NoopA
    ELSE DeleteA(index)

\* transform, op1 = Insert(index, _), op2 = Noop: the new index.
insert_noopA(index) == index

transformA(o1, o2, s) ==
    CASE o1[1] = "Insert" ->
            LET index == o1[2]
                new_index ==
                    CASE o2[1] = "Insert" -> insert_insertA(index, o2[2], s)
                      [] o2[1] = "Delete" -> insert_deleteA(index, o2[2])
                      [] o2[1] = "Noop" -> insert_noopA(index)
            IN  InsertA(new_index, o1[3])
      [] o1[1] = "Delete" ->
            LET index == o1[2] IN
            (CASE o2[1] = "Insert" -> DeleteA(delete_insertA(index, o2[2]))
               [] o2[1] = "Delete" -> delete_deleteA(index, o2[2])
               [] o2[1] = "Noop" -> DeleteA(index))
      [] o1[1] = "Noop" -> NoopA

\* tests::valid_op_for: an Insert at 0..=len, or (len > 0) a Delete at 0..len.
valid_op_forA(d) ==
    {InsertA(i, c) : i \in 0..Len(d), c \in Byte}
        \cup {DeleteA(i) : i \in 0..(Len(d) - 1)}

----------------------------------------------------------------------------
(* Tier B: Insert(usize, usize, u8) | Delete(usize) | Noop *)

InsertB(index, num_deletes, c) == <<"Insert", index, num_deletes, c>>
DeleteB(index) == <<"Delete", index>>
NoopB == <<"Noop">>

OpB == {InsertB(i, n, c) : i \in Index, n \in Count, c \in Byte}
         \cup {DeleteB(i) : i \in Index} \cup {NoopB}

applyB(d, op) ==
    CASE op[1] = "Insert" ->
            IF op[2] <= Len(d) THEN Ok(VecInsert(d, op[2], op[4])) ELSE Panic(d)
      [] op[1] = "Delete" ->
            IF op[2] < Len(d) THEN Ok(VecRemove(d, op[2])) ELSE Panic(d)
      [] op[1] = "Noop" -> Ok(d)

\* Mutation: a tie of two Inserts is resolved without looking at the side.
insert_insertB_IgnoreSide(index, num_deletes, index2, num_deletes_2, s) ==
    IF index2 + num_deletes_2 < index + num_deletes THEN index + 1 ELSE index

\* transform, op1 = Insert(index, num_deletes, _),
\* op2 = Insert(index2, num_deletes_2, _): the new index.
insert_insertB(index, num_deletes, index2, num_deletes_2, s) ==
    IF index2 + num_deletes_2 < index + num_deletes THEN index + 1
    ELSE IF index2 + num_deletes_2 = index + num_deletes
         THEN (IF s = Left THEN index ELSE index + 1)
    ELSE index

\* Mutation: every Delete is counted, whether or not the position shifts.
insert_deleteB_CountsAlways(index, num_deletes, index2) ==
    IF index2 < index THEN <<index - 1, num_deletes + 1>>
    ELSE <<index, num_deletes + 1>>

\* Mutation: the position shifts but the absorbed delete is not counted.
insert_deleteB_NoCount(index, num_deletes, index2) ==
    IF index2 < index THEN <<index - 1, num_deletes>>
    ELSE <<index, num_deletes>>

\* transform, op1 = Insert(index, num_deletes, _), op2 = Delete(index2):
\* the new index and the new num_deletes.
insert_deleteB(index, num_deletes, index2) ==
    IF index2 < index THEN <<index - 1, num_deletes + 1>>
    ELSE <<index, num_deletes>>

\* Mutation: an Insert at the Delete's own position does not shift it.
delete_insertB_Strict(index, index2) ==
    IF index2 < index THEN index + 1 ELSE index

\* transform, op1 = Delete(index), op2 = Insert(index2, _, _): the new index.
delete_insertB(index, index2) ==
    IF index2 <= index THEN index + 1 ELSE index

\* transform, op1 = Delete(index), op2 = Delete(index2): the returned operation.
delete_deleteB(index, index2) ==
    IF index2 < index THEN DeleteB(index - 1)
    ELSE IF index2 = index THEN NoopB
    ELSE DeleteB(index)

\* Mutation: an Insert transformed against Noop counts a delete.
insert_noopB_Counts(index, num_deletes) == <<index, num_deletes + 1>>

\* transform, op1 = Insert(index, num_deletes, _), op2 = Noop: the new index
\* and the unchanged num_deletes.
insert_noopB(index, num_deletes) == <<index, num_deletes>>

transformB(o1, o2, s) ==
    CASE o1[1] = "Insert" ->
            LET index == o1[2]
                num_deletes == o1[3]
                new ==
                    CASE o2[1] = "Insert" ->
                            <<insert_insertB(index, num_deletes, o2[2], o2[3], s),
                              num_deletes>>
                      [] o2[1] = "Delete" -> insert_deleteB(index, num_deletes, o2[2])
                      [] o2[1] = "Noop" -> insert_noopB(index, num_deletes)
            IN  InsertB(new[1], new[2], o1[4])
      [] o1[1] = "Delete" ->
            LET index == o1[2] IN
            (CASE o2[1] = "Insert" -> DeleteB(delete_insertB(index, o2[2]))
               [] o2[1] = "Delete" -> delete_deleteB(index, o2[2])
               [] o2[1] = "Noop" -> DeleteB(index))
      [] o1[1] = "Noop" -> NoopB

\* tests::valid_op_for: num_deletes is always generated as 0.
valid_op_forB(d) ==
    {InsertB(i, 0, c) : i \in 0..Len(d), c \in Byte}
        \cup {DeleteB(i) : i \in 0..(Len(d) - 1)}

----------------------------------------------------------------------------
(* Tier C: Op = Vec<Step>, Step = Skip(usize) | Insert(Chunk) | Delete(usize) *)

SkipC(n) == <<"Skip", n>>
InsertC(s) == <<"Insert", s>>
DeleteC(n) == <<"Delete", n>>

Chunk == SeqsUpTo(Byte, MaxChunk)
Step == {SkipC(n) : n \in 0..MaxLen} \cup {InsertC(s) : s \in Chunk}
          \cup {DeleteC(n) : n \in 0..MaxLen}
OpC == SeqsUpTo(Step, MaxSteps)

\* Vec::resize(new_len, value), growing.
VecResize(d, new_len, value) ==
    [i \in 1..new_len |-> IF i <= Len(d) THEN d[i] ELSE value]

\* slice::copy_within(from..to, dest), a memmove of the old contents.
CopyWithin(d, from, to, dest) ==
    [i \in 1..Len(d) |->
        IF dest < i /\ i <= dest + (to - from) THEN d[i - dest + from] ELSE d[i]]

\* doc[from..from + len(s)].copy_from_slice(s)
CopyFromSlice(d, from, s) ==
    [i \in 1..Len(d) |-> IF from < i /\ i <= from + Len(s) THEN s[i - from] ELSE d[i]]

\* Vec::drain(from..to), dropped at once: the range is removed.
VecDrain(d, from, to) ==
    [i \in 1..(Len(d) - (to - from)) |-> IF i <= from THEN d[i] ELSE d[i + (to - from)]]

\* The cursor after a Delete(n) step at index.
delete_cursorC(index, n) == index + n

\* Mutation: an Insert step advances the cursor by one, whatever the chunk.
insert_cursorC_ByOne(index, s) == index + 1

\* The cursor after an Insert(s) step at index.
insert_cursorC(index, s) == index + Len(s)

\* One iteration of apply's loop on the state [doc, index, ok].
apply_stepC(st, step) ==
    CASE step[1] = "Skip" ->
            [doc |-> st.doc, index |-> st.index + step[2], ok |-> TRUE]
      [] step[1] = "Insert" ->
            LET s == step[2]
                old_doc_len == Len(st.doc)
                resized == VecResize(st.doc, old_doc_len + Len(s), 0)
            IN  IF st.index > old_doc_len
                THEN \* copy_within panics on the range index..old_doc_len
                     [doc |-> resized, index |-> st.index, ok |-> FALSE]
                ELSE [doc |-> CopyFromSlice(
                                  CopyWithin(resized, st.index, old_doc_len,
                                             st.index + Len(s)),
                                  st.index, s),
                      index |-> insert_cursorC(st.index, s),
                      ok |-> TRUE]
      [] step[1] = "Delete" ->
            LET n == step[2] IN
            IF st.index + n > Len(st.doc)
            THEN \* drain panics on a range that ends past the length
                 [doc |-> st.doc, index |-> st.index, ok |-> FALSE]
            ELSE [doc |-> VecDrain(st.doc, st.index, st.index + n),
                  index |-> delete_cursorC(st.index, n),
                  ok |-> TRUE]

RECURSIVE apply_loopC(_, _)
apply_loopC(st, op) ==
    IF op = <<>> \/ ~st.ok THEN st
    ELSE apply_loopC(apply_stepC(st, Head(op)), Tail(op))

applyC(d, op) ==
    LET st == apply_loopC([doc |-> d, index |-> 0, ok |-> TRUE], op)
    IN  [doc |-> st.doc, ok |-> st.ok]

\* transform: a stub that returns the empty operation.
transformC(o1, o2, s) == <<>>

----------------------------------------------------------------------------
(* Two consecutive apply calls on one document: a panic of the first ends the
   run and the second call does not happen *)

apply_twiceA(d, first, second) ==
    LET r == applyA(d, first) IN IF r.ok THEN applyA(r.doc, second) ELSE r

apply_twiceB(d, first, second) ==
    LET r == applyB(d, first) IN IF r.ok THEN applyB(r.doc, second) ELSE r

apply_twiceC(d, first, second) ==
    LET r == applyC(d, first) IN IF r.ok THEN applyC(r.doc, second) ELSE r

----------------------------------------------------------------------------
(* Initial state *)

Blank == <<"Noop">>

\* Before any scenario has run: no document has been generated yet.
Init ==
    /\ doc = <<>>
    /\ doc1 = doc
    /\ doc2 = doc
    /\ op1 = Blank
    /\ op2 = Blank
    /\ op3 = Blank
    /\ side = Left
    /\ transformed_op1 = Blank
    /\ transformed_op2 = Blank
    /\ op3_transformed_by_1_2 = Blank
    /\ op3_transformed_by_2_1 = Blank
    /\ res = Blank
    /\ applied = <<>>
    /\ failed = FALSE
    /\ pc = "init"

----------------------------------------------------------------------------
(* Tier A operations *)

\* One call apply(&mut doc1, &op) on a generated document.
A_Apply ==
    /\ pc = "init"
    /\ \E d \in Doc, op \in OpA :
         LET r == applyA(d, op) IN
         /\ doc' = d
         /\ doc1' = r.doc
         /\ doc2' = d
         /\ failed' = ~r.ok
         /\ applied' = <<op>>
    /\ pc' = "A_applied"
    /\ UNCHANGED <<op1, op2, op3, side, transformed_op1, transformed_op2,
                   op3_transformed_by_1_2, op3_transformed_by_2_1, res>>

\* A second call apply(&mut doc1, &op) on the same document, after the first
\* returned normally.
A_ApplyAgain ==
    /\ pc = "A_applied"
    /\ ~failed
    /\ Len(applied) = 1
    /\ \E op \in OpA :
         LET r == applyA(doc1, op) IN
         /\ doc1' = r.doc
         /\ failed' = ~r.ok
         /\ applied' = Append(applied, op)
    /\ pc' = "A_applied"
    /\ UNCHANGED <<doc, doc2, op1, op2, op3, side, transformed_op1, transformed_op2,
                   op3_transformed_by_1_2, op3_transformed_by_2_1, res>>

\* One call transform(&o1, &o2, s).
A_Transform ==
    /\ pc = "init"
    /\ \E o1 \in OpA, o2 \in OpA, s \in Side :
         /\ op1' = o1
         /\ op2' = o2
         /\ side' = s
         /\ res' = transformA(o1, o2, s)
    /\ pc' = "A_transformed"
    /\ UNCHANGED <<doc, doc1, doc2, op3, transformed_op1, transformed_op2,
                   op3_transformed_by_1_2, op3_transformed_by_2_1, applied, failed>>

\* The body of tests::transform_property_1, for any two operations.
A_Property1 ==
    /\ pc = "init"
    /\ \E d \in Doc, o1 \in OpA, o2 \in OpA :
         LET t2 == transformA(o2, o1, Right)
             r1 == apply_twiceA(d, o1, t2)
             t1 == transformA(o1, o2, Left)
             r2 == IF r1.ok THEN apply_twiceA(d, o2, t1) ELSE Panic(d)
         IN  /\ doc' = d
             /\ op1' = o1
             /\ op2' = o2
             /\ transformed_op2' = t2
             /\ transformed_op1' = t1
             /\ doc1' = r1.doc
             /\ doc2' = r2.doc
             /\ failed' = ~(r1.ok /\ r2.ok)
    /\ pc' = "A_property_1"
    /\ UNCHANGED <<op3, side, op3_transformed_by_1_2, op3_transformed_by_2_1,
                   res, applied>>

NextA == A_Apply \/ A_ApplyAgain \/ A_Transform \/ A_Property1

SpecA == Init /\ [][NextA]_vars

----------------------------------------------------------------------------
(* Tier B operations *)

B_Apply ==
    /\ pc = "init"
    /\ \E d \in Doc, op \in OpB :
         LET r == applyB(d, op) IN
         /\ doc' = d
         /\ doc1' = r.doc
         /\ doc2' = d
         /\ failed' = ~r.ok
         /\ applied' = <<op>>
    /\ pc' = "B_applied"
    /\ UNCHANGED <<op1, op2, op3, side, transformed_op1, transformed_op2,
                   op3_transformed_by_1_2, op3_transformed_by_2_1, res>>

\* A second call apply(&mut doc1, &op) on the same document, after the first
\* returned normally.
B_ApplyAgain ==
    /\ pc = "B_applied"
    /\ ~failed
    /\ Len(applied) = 1
    /\ \E op \in OpB :
         LET r == applyB(doc1, op) IN
         /\ doc1' = r.doc
         /\ failed' = ~r.ok
         /\ applied' = Append(applied, op)
    /\ pc' = "B_applied"
    /\ UNCHANGED <<doc, doc2, op1, op2, op3, side, transformed_op1, transformed_op2,
                   op3_transformed_by_1_2, op3_transformed_by_2_1, res>>

B_Transform ==
    /\ pc = "init"
    /\ \E o1 \in OpB, o2 \in OpB, s \in Side :
         /\ op1' = o1
         /\ op2' = o2
         /\ side' = s
         /\ res' = transformB(o1, o2, s)
    /\ pc' = "B_transformed"
    /\ UNCHANGED <<doc, doc1, doc2, op3, transformed_op1, transformed_op2,
                   op3_transformed_by_1_2, op3_transformed_by_2_1, applied, failed>>

\* The body of tests::transform_property_1, for any two operations.
B_Property1 ==
    /\ pc = "init"
    /\ \E d \in Doc, o1 \in OpB, o2 \in OpB :
         LET t2 == transformB(o2, o1, Right)
             r1 == apply_twiceB(d, o1, t2)
             t1 == transformB(o1, o2, Left)
             r2 == IF r1.ok THEN apply_twiceB(d, o2, t1) ELSE Panic(d)
         IN  /\ doc' = d
             /\ op1' = o1
             /\ op2' = o2
             /\ transformed_op2' = t2
             /\ transformed_op1' = t1
             /\ doc1' = r1.doc
             /\ doc2' = r2.doc
             /\ failed' = ~(r1.ok /\ r2.ok)
    /\ pc' = "B_property_1"
    /\ UNCHANGED <<op3, side, op3_transformed_by_1_2, op3_transformed_by_2_1,
                   res, applied>>

\* The body of tests::transform_property_2, on three operations of valid_op_for.
B_Property2 ==
    /\ pc = "init"
    /\ \E d \in Doc :
       \E o1 \in valid_op_forB(d), o2 \in valid_op_forB(d), o3 \in valid_op_forB(d) :
         LET t2 == transformB(o2, o1, Right)
             r1 == apply_twiceB(d, o1, t2)
             t1 == transformB(o1, o2, Left)
             r2 == IF r1.ok THEN apply_twiceB(d, o2, t1) ELSE Panic(d)
             t3_12 == transformB(transformB(o3, o1, Right), t2, Right)
             r1b == IF r2.ok THEN applyB(r1.doc, t3_12) ELSE Panic(r1.doc)
             t3_21 == transformB(transformB(o3, o2, Right), t1, Right)
             r2b == IF r1b.ok THEN applyB(r2.doc, t3_21) ELSE Panic(r2.doc)
         IN  /\ doc' = d
             /\ op1' = o1
             /\ op2' = o2
             /\ op3' = o3
             /\ transformed_op2' = t2
             /\ transformed_op1' = t1
             /\ op3_transformed_by_1_2' = t3_12
             /\ op3_transformed_by_2_1' = t3_21
             /\ doc1' = r1b.doc
             /\ doc2' = r2b.doc
             /\ failed' = ~(r1b.ok /\ r2b.ok)
    /\ pc' = "B_property_2"
    /\ UNCHANGED <<side, res, applied>>

NextB == B_Apply \/ B_ApplyAgain \/ B_Transform \/ B_Property1 \/ B_Property2

SpecB == Init /\ [][NextB]_vars

----------------------------------------------------------------------------
(* Tier C operations *)

\* One call apply(&mut doc1, &op).
C_Apply ==
    /\ pc = "init"
    /\ \E d \in Doc, op \in OpC :
         LET r == applyC(d, op) IN
         /\ doc' = d
         /\ doc2' = d
         /\ op1' = op
         /\ doc1' = r.doc
         /\ failed' = ~r.ok
    /\ pc' = "C_applied"
    /\ UNCHANGED <<op2, op3, side, transformed_op1, transformed_op2,
                   op3_transformed_by_1_2, op3_transformed_by_2_1, res, applied>>

\* The two replicas of the doc comment of transform: one applies o1 and then
\* transform(o2, o1, Right), the other o2 and then transform(o1, o2, Left); each
\* operation is one its own replica could apply to the base document.
C_Converge ==
    /\ pc = "init"
    /\ \E d \in Doc, o1 \in SeqsUpTo(Step, MaxPairSteps),
          o2 \in SeqsUpTo(Step, MaxPairSteps) :
         /\ applyC(d, o1).ok
         /\ applyC(d, o2).ok
         /\ doc' = d
         /\ LET t2 == transformC(o2, o1, Right)
                r1 == apply_twiceC(d, o1, t2)
                t1 == transformC(o1, o2, Left)
                r2 == IF r1.ok THEN apply_twiceC(d, o2, t1) ELSE Panic(d)
            IN  /\ op1' = o1
                /\ op2' = o2
                /\ transformed_op2' = t2
                /\ transformed_op1' = t1
                /\ doc1' = r1.doc
                /\ doc2' = r2.doc
                /\ failed' = ~(r1.ok /\ r2.ok)
    /\ pc' = "C_converged"
    /\ UNCHANGED <<op3, side, op3_transformed_by_1_2, op3_transformed_by_2_1,
                   res, applied>>

NextC == C_Apply

SpecC == Init /\ [][NextC]_vars

\* The operations of the shapes of tests::test_apply_insert and
\* tests::test_apply_delete, a Skip followed by edits, and the lone Skip.
TestShapedOpC ==
    {<<SkipC(k)>> : k \in 0..MaxLen}
        \cup {<<SkipC(k), InsertC(c)>> : k \in 0..MaxLen, c \in Chunk}
        \cup {<<SkipC(k), DeleteC(n)>> : k \in 0..MaxLen, n \in 0..MaxLen}
        \cup {<<SkipC(k), InsertC(c1), InsertC(c2)>> :
                  k \in 0..MaxLen, c1 \in Chunk, c2 \in Chunk}

\* tests::test_apply_insert / tests::test_apply_delete on any document: one
\* call apply(&mut doc1, &op) with an operation of their shapes.
C_ApplyShaped ==
    /\ pc = "init"
    /\ \E d \in Doc, op \in TestShapedOpC :
         LET r == applyC(d, op) IN
         /\ doc' = d
         /\ doc2' = d
         /\ op1' = op
         /\ doc1' = r.doc
         /\ failed' = ~r.ok
    /\ pc' = "C_applied"
    /\ UNCHANGED <<op2, op3, side, transformed_op1, transformed_op2,
                   op3_transformed_by_1_2, op3_transformed_by_2_1, res, applied>>

NextCS == C_ApplyShaped

SpecCS == Init /\ [][NextCS]_vars

NextCT == C_Converge

SpecCT == Init /\ [][NextCT]_vars

----------------------------------------------------------------------------
(* The two single-unit modules together *)

Next == NextA \/ NextB

Spec == Init /\ [][Next]_vars

----------------------------------------------------------------------------
(* Properties *)

\* An operation whose position is within the bounds of d: Insert at 0..=len,
\* Delete at 0..len, or Noop.  (The position is field 2 in both Tier A and B.)
ValidFor(d, op) ==
    \/ op[1] = "Insert" /\ 0 <= op[2] /\ op[2] <= Len(d)
    \/ op[1] = "Delete" /\ 0 <= op[2] /\ op[2] < Len(d)
    \/ op[1] = "Noop"

\* C1: Tier A satisfies TP1.  For every document and every two operations
\* valid against it (Noop included), the replica that applied op1 and then
\* transform(op2, op1, Right) and the replica that applied op2 and then
\* transform(op1, op2, Left) hold the same bytes, and no call panicked.
C1_TP1_TierA ==
    (pc = "A_property_1" /\ ValidFor(doc, op1) /\ ValidFor(doc, op2))
        => (~failed /\ doc1 = doc2)

\* Two concurrent inserts of different bytes at the same position of a
\* non-empty document have converged.
C1_Witness ==
    /\ pc = "A_property_1"
    /\ Len(doc) > 0
    /\ op1[1] = "Insert" /\ op2[1] = "Insert"
    /\ op1[2] = op2[2] /\ op1[2] <= Len(doc) /\ op1[3] # op2[3]
    /\ ~failed
    /\ doc1 = doc2
    /\ Len(doc1) = Len(doc) + 2

\* C2: Tier B satisfies TP1 on the operations of its generator valid_op_for
\* (every Insert with num_deletes = 0): both replicas end with the same bytes.
C2_TP1_TierB_ZeroCounts ==
    (pc = "B_property_1" /\ op1 \in valid_op_forB(doc) /\ op2 \in valid_op_forB(doc))
        => (~failed /\ doc1 = doc2)

\* A Delete and an Insert at the same position, both of the generator, have
\* converged.
C2_Witness ==
    /\ pc = "B_property_1"
    /\ op1 \in valid_op_forB(doc) /\ op2 \in valid_op_forB(doc)
    /\ op1[1] = "Delete" /\ op2[1] = "Insert" /\ op1[2] = op2[2]
    /\ ~failed
    /\ doc1 = doc2
    /\ Len(doc1) = Len(doc)

\* C3: the assertion of tests::transform_property_2 in Tier B.  For every
\* document and three operations of valid_op_for, the replica that applied
\* op1, transform(op2, op1, Right) and op3 transformed past both, and the
\* replica that applied op2, transform(op1, op2, Left) and op3 transformed
\* past both, hold the same bytes.
C3_ThreeOpConvergence_TierB ==
    pc = "B_property_2" => (~failed /\ doc1 = doc2)

\* The number of bytes of the base document that a chunked operation walks over.
RECURSIVE ConsumedC(_)
ConsumedC(op) ==
    IF op = <<>> THEN 0
    ELSE (IF Head(op)[1] \in {"Skip", "Delete"} THEN Head(op)[2] ELSE 0)
            + ConsumedC(Tail(op))

\* A chunked operation that references no offset beyond the length of d.
WellFormedC(d, op) == ConsumedC(op) <= Len(d)

\* C4: the chunked module satisfies TP1.  For every document and every two
\* well-formed step sequences, applying op1 then transform(op2, op1, Right)
\* gives the same bytes as applying op2 then transform(op1, op2, Left).
C4_TP1_Chunked ==
    (pc = "C_converged" /\ WellFormedC(doc, op1) /\ WellFormedC(doc, op2))
        => (~failed /\ doc1 = doc2)

\* The case table of the Tier A transform, cell by cell.
TableA(o1, o2, s) ==
    LET p1 == o1[2]
        p2 == o2[2]
    IN  CASE o1[1] = "Noop" -> <<"Noop">>
          [] o2[1] = "Noop" -> o1
          [] o1[1] = "Insert" /\ o2[1] = "Insert" ->
                IF p2 < p1 \/ (p2 = p1 /\ s = "Right")
                THEN <<"Insert", p1 + 1, o1[3]>> ELSE <<"Insert", p1, o1[3]>>
          [] o1[1] = "Insert" /\ o2[1] = "Delete" ->
                IF p2 < p1 THEN <<"Insert", p1 - 1, o1[3]>> ELSE <<"Insert", p1, o1[3]>>
          [] o1[1] = "Delete" /\ o2[1] = "Insert" ->
                IF p2 <= p1 THEN <<"Delete", p1 + 1>> ELSE <<"Delete", p1>>
          [] o1[1] = "Delete" /\ o2[1] = "Delete" ->
                IF p2 < p1 THEN <<"Delete", p1 - 1>>
                ELSE IF p2 = p1 THEN <<"Noop">>
                ELSE <<"Delete", p1>>

\* C5: the Tier A transform returns the cell of the case table for every op1,
\* op2 and side; the result has the kind of op1 unless both are Deletes of the
\* same position, and an Insert keeps its byte.
C5_TransformTable_TierA ==
    pc = "A_transformed" =>
        /\ res = TableA(op1, op2, side)
        /\ (~(op1[1] = "Delete" /\ op2[1] = "Delete" /\ op1[2] = op2[2])
                => res[1] = op1[1])
        /\ (op1[1] = "Insert" => res[3] = op1[3])

\* An Insert transformed with Right against an Insert at the same position
\* has moved one to the right.
C5_Witness ==
    /\ pc = "A_transformed"
    /\ op1[1] = "Insert" /\ op2[1] = "Insert" /\ op1[2] = op2[2]
    /\ side = Right
    /\ res = <<"Insert", op1[2] + 1, op1[3]>>

\* C6: double-delete collapse in both single-unit modules.  For every position
\* and both sides transform(Delete(p), Delete(p), side) is Noop; and when both
\* replicas deleted the same element, exactly that one element is gone from
\* both after the exchange.
C6_DoubleDeleteCollapse ==
    /\ (pc \in {"A_transformed", "B_transformed"}
          /\ op1[1] = "Delete" /\ op2[1] = "Delete" /\ op1[2] = op2[2])
            => res = <<"Noop">>
    /\ (pc \in {"A_property_1", "B_property_1"}
          /\ op1[1] = "Delete" /\ op2 = op1 /\ op1[2] < Len(doc))
            => /\ ~failed
               /\ transformed_op1 = <<"Noop">>
               /\ transformed_op2 = <<"Noop">>
               /\ doc1 = doc2
               /\ Len(doc1) = Len(doc) - 1

\* Delete(1) transformed with Right against Delete(1) has become Noop.
C6_Witness ==
    /\ pc = "A_transformed"
    /\ op1 = <<"Delete", 1>> /\ op2 = <<"Delete", 1>>
    /\ side = Right
    /\ res = <<"Noop">>

\* C7: identity laws of both single-unit transforms.  transform(Noop, x, side)
\* is Noop and transform(x, Noop, side) is x, num_deletes included.
C7_IdentityLaws ==
    pc \in {"A_transformed", "B_transformed"} =>
        /\ (op1 = <<"Noop">> => res = <<"Noop">>)
        /\ (op2 = <<"Noop">> => res = op1)

\* A Tier B Insert that carries a non-zero num_deletes came back unchanged
\* from a transform against Noop.
C7_Witness ==
    /\ pc = "B_transformed"
    /\ op1[1] = "Insert" /\ op1[3] > 0
    /\ op2 = <<"Noop">>
    /\ res = op1

\* C8: Insert/Delete round trip of the single-unit apply.  Applying
\* Insert(i, c) with i <= len and then Delete(i) gives the document back.
C8_InsertDeleteRoundTrip ==
    (pc \in {"A_applied", "B_applied"}
       /\ Len(applied) = 2
       /\ applied[1][1] = "Insert" /\ applied[1][2] <= Len(doc)
       /\ applied[2] = <<"Delete", applied[1][2]>>)
        => (~failed /\ doc1 = doc)

\* A byte inserted in the middle of a document, different from the byte it
\* displaced, was deleted again.
C8_Witness ==
    /\ pc = "A_applied"
    /\ Len(doc) >= 2
    /\ Len(applied) = 2
    /\ applied[1][1] = "Insert" /\ applied[1][2] = 1 /\ applied[1][3] # doc[2]
    /\ applied[2] = <<"Delete", 1>>
    /\ ~failed
    /\ doc1 = doc

\* The byte an Insert of either tier carries (its last field).
ByteOf(op) == op[Len(op)]

\* C9: the result of one valid single-unit apply.  Insert at p with byte c
\* gives D[0..p] ++ [c] ++ D[p..], one longer, every byte at or after p one to
\* the right; Delete at p gives D[0..p] ++ D[p+1..], one shorter; Noop gives
\* D.  (The expected result does not mention num_deletes.)
C9_ApplyResult ==
    (pc \in {"A_applied", "B_applied"} /\ Len(applied) = 1
       /\ ValidFor(doc, applied[1]))
        => LET op == applied[1]
               p == op[2]
           IN  /\ ~failed
               /\ op[1] = "Insert" =>
                     /\ doc1 = SubSeq(doc, 1, p) \o <<ByteOf(op)>>
                                  \o SubSeq(doc, p + 1, Len(doc))
                     /\ Len(doc1) = Len(doc) + 1
                     /\ \A i \in (p + 1)..Len(doc) : doc1[i + 1] = doc[i]
               /\ op[1] = "Delete" =>
                     /\ doc1 = SubSeq(doc, 1, p) \o SubSeq(doc, p + 2, Len(doc))
                     /\ Len(doc1) = Len(doc) - 1
               /\ op[1] = "Noop" => doc1 = doc

\* A Tier B Insert with a non-zero num_deletes was applied in the middle of a
\* document.
C9_Witness ==
    /\ pc = "B_applied"
    /\ Len(applied) = 1
    /\ Len(doc) >= 2
    /\ applied[1][1] = "Insert" /\ applied[1][2] = 1 /\ applied[1][3] > 0
    /\ applied[1][4] # doc[2]
    /\ ~failed
    /\ doc1 = <<doc[1], applied[1][4]>> \o SubSeq(doc, 2, Len(doc))

\* C10: in the chunked apply a Delete step does not advance the cursor.  For
\* every document and every [Skip(k), Delete(n), Insert(c)] with
\* k + n <= len, the result is D[0..k] ++ c ++ D[k+n..].
C10_DeleteKeepsCursor ==
    (pc = "C_applied" /\ Len(op1) = 3
       /\ op1[1][1] = "Skip" /\ op1[2][1] = "Delete" /\ op1[3][1] = "Insert"
       /\ op1[1][2] + op1[2][2] <= Len(doc))
        => LET k == op1[1][2]
               n == op1[2][2]
               c == op1[3][2]
           IN  /\ ~failed
               /\ doc1 = SubSeq(doc, 1, k) \o c \o SubSeq(doc, k + n + 1, Len(doc))

\* Three operations of the generator, an Insert, a Delete at the Insert's
\* position and an Insert just after it, have converged on both replicas.
C3_Witness ==
    /\ pc = "B_property_2"
    /\ op1[1] = "Insert" /\ op2[1] = "Delete" /\ op3[1] = "Insert"
    /\ op2[2] = op1[2] /\ op3[2] = op1[2] + 1
    /\ op1[4] # op3[4]
    /\ ~failed
    /\ doc1 = doc2
    /\ Len(doc1) = Len(doc) + 1

\* C11: chunked apply of Skip and Insert steps.  With k <= len,
\* [Skip(k), Insert(c)] gives D[0..k] ++ c ++ D[k..]; with k + n <= len,
\* [Skip(k), Delete(n)] gives D[0..k] ++ D[k+n..]; a lone Skip changes nothing;
\* and an Insert advances the cursor by the length of its chunk, so
\* [Skip(k), Insert(c1), Insert(c2)] gives D[0..k] ++ c1 ++ c2 ++ D[k..].
C11_SkipInsertApply ==
    (pc = "C_applied" /\ Len(op1) >= 1 /\ op1[1][1] = "Skip")
        => LET k == op1[1][2]
               rest == SubSeq(doc, k + 1, Len(doc))
           IN  /\ Len(op1) = 1 => (~failed /\ doc1 = doc)
               /\ (Len(op1) = 2 /\ op1[2][1] = "Insert" /\ k <= Len(doc))
                     => (~failed /\ doc1 = SubSeq(doc, 1, k) \o op1[2][2] \o rest)
               /\ (Len(op1) = 2 /\ op1[2][1] = "Delete" /\ k + op1[2][2] <= Len(doc))
                     => /\ ~failed
                        /\ doc1 = SubSeq(doc, 1, k)
                                     \o SubSeq(doc, k + op1[2][2] + 1, Len(doc))
               /\ (Len(op1) = 3 /\ op1[2][1] = "Insert" /\ op1[3][1] = "Insert"
                      /\ k <= Len(doc))
                     => /\ ~failed
                        /\ doc1 = SubSeq(doc, 1, k) \o op1[2][2] \o op1[3][2] \o rest

\* Two chunks, the first two bytes long and unlike the second, were inserted
\* one after the other in the middle of a document.
C11_Witness ==
    /\ pc = "C_applied"
    /\ Len(doc) = 2
    /\ Len(op1) = 3
    /\ op1[1] = <<"Skip", 1>>
    /\ op1[2][1] = "Insert" /\ Len(op1[2][2]) = 2
    /\ op1[3][1] = "Insert" /\ Len(op1[3][2]) = 1
    /\ op1[3][2][1] # op1[2][2][2]
    /\ ~failed
    /\ doc1 = <<doc[1]>> \o op1[2][2] \o op1[3][2] \o <<doc[2]>>

\* C12: the chunked apply is all-or-nothing.  Whenever the call fails, the
\* document is byte for byte the one it was called with.
C12_ChunkedApplyAllOrNothing ==
    (pc = "C_applied" /\ failed) => doc1 = doc

\* Whether a chunked operation, walked from the given cursor over a document
\* of the given length, moves the cursor or a step's extent past the end.
RECURSIVE ExceedsC(_, _, _)
ExceedsC(len, cursor, op) ==
    IF op = <<>> THEN FALSE
    ELSE LET step == Head(op) IN
         CASE step[1] = "Skip" ->
                 cursor + step[2] > len \/ ExceedsC(len, cursor + step[2], Tail(op))
           [] step[1] = "Insert" ->
                 cursor > len
                   \/ ExceedsC(len + Len(step[2]), cursor + Len(step[2]), Tail(op))
           [] step[1] = "Delete" ->
                 cursor + step[2] > len \/ ExceedsC(len - step[2], cursor, Tail(op))

\* C13: the chunked apply fails whenever an offset or step length of the
\* operation exceeds the document's bounds, a trailing Skip past the end
\* included.
C13_ChunkedApplyFailsOutOfRange ==
    (pc = "C_applied" /\ ExceedsC(Len(doc), 0, op1)) => failed

\* C14: the single-unit apply fails exactly when the operation is out of
\* bounds (Insert with index > len, Delete with index >= len), and a failed
\* call leaves the document unchanged.
C14_ApplyFailsExactlyOutOfBounds ==
    (pc \in {"A_applied", "B_applied"} /\ Len(applied) = 1)
        => /\ failed <=> ~ValidFor(doc, applied[1])
           /\ failed => doc1 = doc

\* A Delete on the empty document has failed and left it empty.
C14_Witness ==
    /\ pc = "B_applied"
    /\ doc = <<>>
    /\ applied = <<(<<"Delete", 0>>)>>
    /\ failed
    /\ doc1 = <<>>

OtherSide(s) == IF s = "Left" THEN "Right" ELSE "Left"

\* C15: in Tier A the side only breaks the tie of two Inserts at the same
\* position.  There Left keeps p and Right gives p + 1; for every other
\* op1, op2 both sides give the same result.
C15_SideOnlyBreaksInsertTies ==
    pc = "A_transformed" =>
        LET other == transformA(op1, op2, OtherSide(side))
            left == IF side = "Left" THEN res ELSE other
            right == IF side = "Left" THEN other ELSE res
        IN  IF op1[1] = "Insert" /\ op2[1] = "Insert" /\ op1[2] = op2[2]
            THEN /\ left = <<"Insert", op1[2], op1[3]>>
                 /\ right = <<"Insert", op1[2] + 1, op1[3]>>
            ELSE res = other

\* An Insert transformed with Left against an Insert at the same position
\* has kept its position.
C15_Witness ==
    /\ pc = "A_transformed"
    /\ op1[1] = "Insert" /\ op2[1] = "Insert" /\ op1[2] = op2[2]
    /\ side = "Left"
    /\ res = op1

\* C16: the Tier A transform preserves validity.  For op1, op2 valid against D
\* and both sides, transform(op1, op2, side) is valid against D with op2
\* applied, so applying it does not fail; and no index of a result is below 0.
C16_TransformPreservesValidity ==
    /\ (pc = "A_property_1" /\ ValidFor(doc, op1) /\ ValidFor(doc, op2))
          => /\ \A s \in {"Left", "Right"} :
                  LET after == applyA(doc, op2)
                      t == transformA(op1, op2, s)
                  IN  after.ok /\ ValidFor(after.doc, t) /\ applyA(after.doc, t).ok
             /\ ~failed
    /\ (pc = "A_transformed" /\ res[1] # "Noop") => res[2] >= 0

\* An Insert at the end, transformed against a Delete of the last byte, has
\* moved down to the new end and was applied there.
C16_Witness ==
    /\ pc = "A_property_1"
    /\ Len(doc) >= 1
    /\ op1[1] = "Insert" /\ op1[2] = Len(doc)
    /\ op2 = <<"Delete", Len(doc) - 1>>
    /\ transformed_op1 = <<"Insert", Len(doc) - 1, op1[3]>>
    /\ ~failed
    /\ Len(doc2) = Len(doc)

\* C17: Tier B satisfies TP1 whatever num_deletes its Inserts carry.  For
\* every document and two operations with positions valid against it, both
\* replicas end with the same bytes.
C17_TP1_TierB_AnyCounts ==
    (pc = "B_property_1" /\ ValidFor(doc, op1) /\ ValidFor(doc, op2))
        => (~failed /\ doc1 = doc2)

\* C18: threading of num_deletes in the Tier B transform.  An Insert
\* (p, d, c) comes back as an Insert whose count is d + 1 exactly when op2 is
\* a Delete before p, and d otherwise; against a Delete the sum of position
\* and count is unchanged.
C18_CountThreading ==
    (pc = "B_transformed" /\ op1[1] = "Insert")
        => /\ res[1] = "Insert"
           /\ res[3] = (IF op2[1] = "Delete" /\ op2[2] < op1[2]
                         THEN op1[3] + 1 ELSE op1[3])
           /\ (op2[1] = "Delete" /\ op2[2] < op1[2]) => res[2] = op1[2] - 1
           /\ op2[1] = "Delete" => res[2] + res[3] = op1[2] + op1[3]

\* An Insert with a count transformed against a Delete before it has moved
\* down by one and counts one more.
C18_Witness ==
    /\ pc = "B_transformed"
    /\ op1[1] = "Insert" /\ op1[2] = 2 /\ op1[3] = 1
    /\ op2 = <<"Delete", 0>>
    /\ res = <<"Insert", 1, 2, op1[4]>>

\* The Tier A operation that corresponds to a Tier B one: num_deletes dropped.
ToTierA(op) == IF op[1] = "Insert" THEN <<"Insert", op[2], op[4]>> ELSE op

ZeroCount(op) == op[1] = "Insert" => op[3] = 0

\* C19: Tier B on zero counts behaves as Tier A.  The Tier B transform of
\* operations whose Inserts carry count 0 has the kind, position and byte of
\* the Tier A transform of the corresponding operations, and applying
\* corresponding operations to the same document gives the same document.
C19_TierB_ZeroCounts_AsTierA ==
    /\ (pc = "B_transformed" /\ ZeroCount(op1) /\ ZeroCount(op2))
          => ToTierA(res) = transformA(ToTierA(op1), ToTierA(op2), side)
    /\ (pc = "B_applied" /\ Len(applied) = 1 /\ ZeroCount(applied[1]))
          => LET a == applyA(doc, ToTierA(applied[1]))
             IN  a.doc = doc1 /\ a.ok = ~failed

\* A zero-count Insert transformed with Right against a zero-count Insert at
\* the same position has moved one to the right, as in Tier A.
C19_Witness ==
    /\ pc = "B_transformed"
    /\ op1[1] = "Insert" /\ op2[1] = "Insert"
    /\ op1[3] = 0 /\ op2[3] = 0 /\ op1[2] = op2[2]
    /\ side = "Right"
    /\ res = <<"Insert", op1[2] + 1, 0, op1[4]>>

\* C20: tie-break order in Tier A.  With op1 = Insert(p, x) and
\* op2 = Insert(p, y), p <= len, both replicas end with
\* D[0..p] ++ [x, y] ++ D[p..]: the byte of the Left operation comes first.
C20_TieBreakOrder ==
    (pc = "A_property_1" /\ op1[1] = "Insert" /\ op2[1] = "Insert"
       /\ op1[2] = op2[2] /\ op1[2] <= Len(doc))
        => LET p == op1[2]
               expected == SubSeq(doc, 1, p) \o <<op1[3], op2[3]>>
                             \o SubSeq(doc, p + 1, Len(doc))
           IN  ~failed /\ doc1 = expected /\ doc2 = expected

\* Two different bytes inserted at position 1 of a two-byte document stand in
\* the order op1, op2 on both replicas.
C20_Witness ==
    /\ pc = "A_property_1"
    /\ Len(doc) = 2
    /\ op1[1] = "Insert" /\ op2[1] = "Insert"
    /\ op1[2] = 1 /\ op2[2] = 1 /\ op1[3] # op2[3]
    /\ ~failed
    /\ doc1 = <<doc[1], op1[3], op2[3], doc[2]>>
    /\ doc2 = doc1

====
